---- MODULE Spec2Model ----
(***************************************************************************)
(* Model of clyo's CommandTree (src/clyo/prompt.py): the path resolver     *)
(* get_command, the help prefix, the path setter and one REPL turn.        *)
(*                                                                         *)
(* Strings are sequences of one-character strings.  Offsets into a string  *)
(* (command_len) are kept 0-based as in the Python source; the helpers     *)
(* below translate to the 1-based sequences of TLA+.                       *)
(***************************************************************************)
EXTENDS Integers, Sequences, FiniteSets, TLC

VARIABLES pointer, text, res, comp, turn

vars == <<pointer, text, res, comp, turn>>

(***************************************************************************)
(* Bounds                                                                  *)
(***************************************************************************)
\* Number of pieces (keystroke groups) the user may type into one line.
MaxPieces == 4

(***************************************************************************)
(* String helpers: Python's str methods, as the resolver uses them.        *)
(***************************************************************************)
SP == " "
SL == "/"
HASH == "#"
DOT == <<".">>
DOTDOT == <<".", ".">>
HELP == <<"h", "e", "l", "p">>
QMARK == <<"?">>
DASHHELP == <<"-", "-", "h", "e", "l", "p">>

\* s[n:]
From(s, n) == SubSeq(s, n + 1, Len(s))

\* s[:n]
Upto(s, n) == SubSeq(s, 1, n)

\* sub occurs in s at 0-based offset i
OccursAt(s, sub, i) ==
    /\ i >= 0
    /\ i + Len(sub) <= Len(s)
    /\ SubSeq(s, i + 1, i + Len(sub)) = sub

\* s.index(sub, start); -1 stands for the ValueError of str.index
RECURSIVE Index(_, _, _)
Index(s, sub, start) ==
    IF start + Len(sub) > Len(s) THEN -1
    ELSE IF OccursAt(s, sub, start) THEN start
    ELSE Index(s, sub, start + 1)

\* word.startswith(w)
StartsWith(word, w) == Len(w) <= Len(word) /\ SubSeq(word, 1, Len(w)) = w

\* c in s
Contains(s, c) == \E i \in 1..Len(s) : s[i] = c

\* s.lstrip()
RECURSIVE LStrip(_)
LStrip(s) == IF s # <<>> /\ s[1] = SP THEN LStrip(Tail(s)) ELSE s

\* s.rstrip()
RECURSIVE RStrip(_)
RStrip(s) == IF s # <<>> /\ s[Len(s)] = SP THEN RStrip(Upto(s, Len(s) - 1)) ELSE s

\* s.strip()
Strip(s) == RStrip(LStrip(s))

\* s.replace(' ', '/')
Replace(s) == [i \in 1..Len(s) |-> IF s[i] = SP THEN SL ELSE s[i]]

\* s.split('/', maxsplit=1)[0]
SplitHead(s) ==
    IF Contains(s, SL) THEN Upto(s, Index(s, <<SL>>, 0)) ELSE s

\* s.split('/', maxsplit=1)[1], or '' when there is no '/'
SplitRest(s) ==
    IF Contains(s, SL) THEN From(s, Index(s, <<SL>>, 0) + 1) ELSE <<>>

(***************************************************************************)
(* The node tree.  Node ids are the absolute paths.                        *)
(*   /            group:  a, g                                             *)
(*   /a           leaf                                                     *)
(*   /g           group:  aa, g, help                                      *)
(*   /g/aa        leaf                                                     *)
(*   /g/g         group:  a                                                *)
(*   /g/g/a       leaf                                                     *)
(*   /g/help      leaf                                                     *)
(***************************************************************************)
Root == "/"
NoNode == "none"

Nodes == {"/", "/a", "/g", "/g/aa", "/g/g", "/g/g/a", "/g/help"}

NodeName ==
    [n \in Nodes |->
        CASE n = "/" -> <<>>
          [] n = "/a" -> <<"a">>
          [] n = "/g" -> <<"g">>
          [] n = "/g/aa" -> <<"a", "a">>
          [] n = "/g/g" -> <<"g">>
          [] n = "/g/g/a" -> <<"a">>
          [] n = "/g/help" -> HELP]

Parent ==
    [n \in Nodes |->
        CASE n = "/" -> NoNode
          [] n = "/a" -> "/"
          [] n = "/g" -> "/"
          [] n = "/g/aa" -> "/g"
          [] n = "/g/g" -> "/g"
          [] n = "/g/g/a" -> "/g/g"
          [] n = "/g/help" -> "/g"]

\* Node.children, in declaration order
Children ==
    [n \in Nodes |->
        CASE n = "/" -> <<"/a", "/g">>
          [] n = "/g" -> <<"/g/aa", "/g/g", "/g/help">>
          [] n = "/g/g" -> <<"/g/g/a">>
          [] OTHER -> <<>>]

HasChildren(n) == Children[n] # <<>>

ChildSet(n) == {Children[n][i] : i \in 1..Len(Children[n])}

\* (variant: a name is matched by any of its prefixes)
MatchesPrefix(name, command) == StartsWith(name, command)

\* the key comparison of the children dict: exact match on the name
Matches(name, command) == name = command

\* command in pointer.children
HasChild(n, command) == \E c \in ChildSet(n) : Matches(NodeName[c], command)

\* pointer.children[command]
Child(n, command) == CHOOSE c \in ChildSet(n) : Matches(NodeName[c], command)

\* CommandTree._prefixes
Prefixes == {HELP, QMARK}

(***************************************************************************)
(* Outcomes of a call: a returned tuple or a raised exception.  viaPrefix  *)
(* records that the outcome was produced by a prefix handler.              *)
(***************************************************************************)
Ok(n, a, l, v) ==
    [st |-> "ok", node |-> n, args |-> a, len |-> l, viaPrefix |-> v, err |-> <<>>]

Raise(kind, arg) ==
    [st |-> kind, node |-> NoNode, args |-> <<>>, len |-> 0, viaPrefix |-> FALSE, err |-> arg]

NoCall ==
    [st |-> "none", node |-> NoNode, args |-> <<>>, len |-> 0, viaPrefix |-> FALSE, err |-> <<>>]

(***************************************************************************)
(* CommandTree.get_command                                                 *)
(***************************************************************************)
\* "# Handle comments"
StripComment(prompt) ==
    IF Contains(prompt, HASH) THEN Upto(prompt, Index(prompt, <<HASH>>, 0)) ELSE prompt

\* (variant: spaces are not turned into separators)
NormaliseKeepSpaces(original) == Strip(original)

\* the working string: prompt.strip().replace(' ', '/')
Normalise(original) == Replace(Strip(original))

\* original.lstrip().startswith('/')
IsAbsolute(original) ==
    LET s == LStrip(original) IN Len(s) > 0 /\ s[1] = SL

\* "Init pointer": the root for an absolute prompt, else the current pointer
StartPointer(self, original) == IF IsAbsolute(original) THEN Root ELSE self

StartLen(original) == IF IsAbsolute(original) THEN Index(original, <<SL>>, 0) + 1 ELSE 0

StartPrompt(original) ==
    IF IsAbsolute(original) THEN Tail(Normalise(original)) ELSE Normalise(original)

\* command_len after one token has been located in the original string
TokenEnd(original, prompt, command, command_len) ==
    LET cl1 == IF prompt[1] = SL THEN command_len + 1 ELSE command_len
        idx == Index(original, command, cl1)
        cl2 == idx + Len(command)
    IN  IF idx = -1 THEN -1
        ELSE IF command # <<>> /\ Len(original) > cl2 /\ original[cl2 + 1] = SL
             THEN cl2 + 1
             ELSE cl2

\* (variant: '..' stays where it is)
UpStays(n) == n

\* "pointer.parent if pointer.parent else pointer"
Up(n) == IF Parent[n] # NoNode THEN Parent[n] ELSE n

\* "Lack space after prefix"
LacksSpace(original, command_len) ==
    Len(original) > command_len /\ original[command_len + 1] # SP

\* (variant: prefixes stay enabled behind the first token)
AfterTokenKeep(prefix_enabled) == prefix_enabled

\* prefix_enabled once a loop iteration has completed
AfterToken(prefix_enabled) == FALSE

\* (variant: partial mode keeps the offset behind the token it gave up on)
RollBackNone(previous_command_len, command_len) == command_len

\* command_len when partial mode gives up on a token
RollBack(previous_command_len, command_len) == previous_command_len

\* (variant: text directly behind the trailing '/' ends the loop in both modes)
BreaksOnTextAlways(partial) == TRUE

\* "elif partial: break" of the trailing loop
BreaksOnText(partial) == partial

\* (variant: partial mode leaves the trailing '/' alone)
ConsumesSlashUnlessPartial(partial) == ~partial

\* "if char == '/': command_len += 1" of the trailing loop, in both modes
ConsumesSlash(partial) == TRUE

\* "Consume / at the end of the command part": the offset reached, or -1
\* when the loop raises KeyError(original[command_len:])
RECURSIVE Trailing(_, _, _)
Trailing(original, command_len, partial) ==
    IF command_len >= Len(original) THEN command_len
    ELSE LET char == original[command_len + 1]
         IN  IF char = SL /\ ConsumesSlash(partial)
             THEN Trailing(original, command_len + 1, partial)
             ELSE IF char = SP THEN command_len
             ELSE IF BreaksOnText(partial) THEN command_len
             ELSE -1

\* the offset at which the KeyError of the trailing loop is raised
RECURSIVE TrailingStop(_, _)
TrailingStop(original, command_len) ==
    IF command_len < Len(original) /\ original[command_len + 1] = SL
    THEN TrailingStop(original, command_len + 1)
    ELSE command_len

\* (variant: the separating spaces are never counted)
ArgsStartNoSkip(original, args, command_len) == command_len

\* "Count the separating space(s) only if we do have args"
ArgsStart(original, args, command_len) ==
    IF args # <<>> THEN Index(original, args, command_len) ELSE command_len

\* the code after the parsing loop
Finish(original, command_len, ptr, partial) ==
    LET cl == Trailing(original, command_len, partial)
    IN  IF cl = -1
        THEN Raise("KeyError", From(original, TrailingStop(original, command_len)))
        ELSE LET args == Strip(From(original, cl))
             IN  Ok(ptr, args, ArgsStart(original, args, cl), FALSE)

RECURSIVE get_command(_, _, _, _)
RECURSIVE ParseLoop(_, _, _, _, _, _, _)

\* (variant: '--help' is appended to the args of the remainder)
HelpArgsAppend(args) == IF args = <<>> THEN DASHHELP ELSE args \o <<SP>> \o DASHHELP

\* the args returned by _help_prefix: "return command, '--help', ..."
HelpArgs(args) == DASHHELP

\* (variant: the length consumed by the prefix itself is left out)
HelpLenOfRemainder(command_len, new_command_len) == new_command_len

\* the length returned by _help_prefix: "(command_len + new_command_len)"
HelpLen(command_len, new_command_len) == command_len + new_command_len

\* CommandTree._help_prefix
help_prefix(self, prompt, command_len, partial) ==
    LET remain == From(prompt, command_len)
    IN  IF Strip(remain) # <<>>
        THEN LET r == get_command(self, remain, FALSE, partial)
             IN  IF r.st = "ok"
                 THEN Ok(r.node, HelpArgs(r.args), HelpLen(command_len, r.len), TRUE)
                 ELSE [r EXCEPT !.viaPrefix = TRUE]
        ELSE Ok(self, HelpArgs(<<>>), HelpLen(command_len, 0), TRUE)

\* (variant: an unmatched token never raises)
GivesUpAlways(partial) == TRUE

\* "elif partial:" behind the failed child lookup
GivesUp(partial) == partial

\* "Loop to parse the command part"
ParseLoop(self, original, prompt, command_len, ptr, prefix_enabled, partial) ==
    IF prompt = <<>> THEN Finish(original, command_len, ptr, partial)
    ELSE
      LET previous_command_len == command_len
          command == SplitHead(prompt)
          rest == SplitRest(prompt)
          cl == TokenEnd(original, prompt, command, command_len)
          Continue(np) ==
              IF ~HasChildren(np)
              THEN Finish(original, cl, np, partial)
              ELSE ParseLoop(self, original, rest, cl, np,
                             AfterToken(prefix_enabled), partial)
      IN  IF cl = -1 THEN Raise("ValueError", command)
          ELSE IF command = DOTDOT THEN Continue(Up(ptr))
          ELSE IF command # <<>> /\ command # DOT
          THEN IF HasChild(ptr, command) THEN Continue(Child(ptr, command))
               ELSE IF prefix_enabled /\ command \in Prefixes
               THEN IF LacksSpace(original, cl)
                    THEN Raise("KeyError", command)
                    ELSE help_prefix(self, original, cl, partial)
               ELSE IF GivesUp(partial)
               THEN Finish(original, RollBack(previous_command_len, cl), ptr, partial)
               ELSE Raise("KeyError", command)
          ELSE Continue(ptr)

get_command(self, prompt, prefix_enabled, partial) ==
    LET original == StripComment(prompt)
    IN  ParseLoop(self, original, StartPrompt(original), StartLen(original),
                  StartPointer(self, original), prefix_enabled, partial)

\* CommandTree.ROOT_PATH
ROOT_PATH == <<SL>>

\* (variant: the name is appended without a separator)
JoinPathBare(p, name) == p \o name

\* "self.parent.path / self.name": pathlib puts one '/' between the two
\* unless the left one ends with '/', and an empty name adds nothing
JoinPath(p, name) ==
    IF name = <<>> THEN p
    ELSE IF p[Len(p)] = SL THEN p \o name
    ELSE p \o <<SL>> \o name

\* Node.__post_init__: str(self.path)
RECURSIVE path(_)
path(n) ==
    IF Parent[n] # NoNode THEN JoinPath(path(Parent[n]), NodeName[n])
    ELSE JoinPath(ROOT_PATH, NodeName[n])

\* CommandTree.__getitem__
GetItem(self, name) == get_command(self, name, TRUE, FALSE)

(***************************************************************************)
(* Completers                                                              *)
(***************************************************************************)
\* click's hidden flag of a command
Hidden == {"/g/help"}

\* the option names and the positional arguments of the leaf commands, each
\* with its hidden flag
Options ==
    [n \in Nodes |->
        CASE n = "/a" -> << [name |-> <<"-", "f">>, hidden |-> FALSE],
                            [name |-> <<"k", "=">>, hidden |-> FALSE],
                            [name |-> <<"-", "q">>, hidden |-> TRUE] >>
          [] OTHER -> <<>>]

Arguments ==
    [n \in Nodes |->
        CASE n = "/a" -> << [name |-> <<"X">>, hidden |-> FALSE],
                            [name |-> <<"Z">>, hidden |-> FALSE],
                            [name |-> <<"Y">>, hidden |-> TRUE] >>
          [] OTHER -> <<>>]

\* (variant: hidden entries are kept)
VisibleAll(entries) == entries

\* "if opt_kwargs.get('hidden', False)": the entries that are not hidden
Visible(entries) == SelectSeq(entries, LAMBDA e : ~e.hidden)

Names(entries) == [i \in 1..Len(entries) |-> entries[i].name]

\* Node._make_group_completer / Node._make_command_completer: the entries
\* handed to CommandCompleter as options_with_extra
CompleterOptions(n) ==
    IF HasChildren(n)
    THEN [i \in 1..Len(Children[n]) |->
            [name |-> NodeName[Children[n][i]], hidden |-> Children[n][i] \in Hidden]]
    ELSE Options[n]

\* CommandCompleter.__init__: the words of the WordCompleter
Words(n) == Names(Visible(CompleterOptions(n)))

\* (variant: hidden positional arguments are kept)
CompleterArgumentsAll(n) == IF HasChildren(n) THEN <<>> ELSE Names(Arguments[n])

\* CommandCompleter.__init__: self._arguments
CompleterArguments(n) == IF HasChildren(n) THEN <<>> ELSE Names(Visible(Arguments[n]))

\* characters that are neither alphanumeric nor white space
Punct == {SL, HASH, ".", "-", "=", "?"}

SameClass(c, d) == (c \in Punct) = (d \in Punct)

\* (variant: the word is everything behind the last space)
WordBeforeCursorWhole(t) ==
    IF t = <<>> \/ t[Len(t)] = SP THEN <<>>
    ELSE LET k == CHOOSE i \in 1..Len(t) :
                    /\ \A j \in i..Len(t) : t[j] # SP
                    /\ i > 1 => t[i - 1] = SP
         IN  SubSeq(t, k, Len(t))

\* Document.get_word_before_cursor() with the cursor at the end of t
WordBeforeCursor(t) ==
    IF t = <<>> \/ t[Len(t)] = SP THEN <<>>
    ELSE LET k == CHOOSE i \in 1..Len(t) :
                    /\ \A j \in i..Len(t) : t[j] # SP /\ SameClass(t[j], t[Len(t)])
                    /\ i > 1 => (t[i - 1] = SP \/ ~SameClass(t[i - 1], t[Len(t)]))
         IN  SubSeq(t, k, Len(t))

\* (variant: a word that already occurs in the text is not offered again)
WordCompletionsOnce(words, t) ==
    SelectSeq(words, LAMBDA word :
        /\ StartsWith(word, WordBeforeCursor(t))
        /\ ~\E i \in 0..Len(t) : OccursAt(t, word, i))

\* WordCompleter.get_completions
WordCompletions(words, t) ==
    SelectSeq(words, LAMBDA word : StartsWith(word, WordBeforeCursor(t)))

\* (variant: no term is counted)
CountsAsArgNever(term) == FALSE

\* "if '=' not in term"
CountsAsArg(term) == ~Contains(term, "=")

\* len([term for term in text.split() if '=' not in term])
RECURSIVE NArgs(_)
NArgs(t) ==
    LET u == LStrip(t)
    IN  IF u = <<>> THEN 0
        ELSE LET e == IF Contains(u, SP) THEN Index(u, <<SP>>, 0) ELSE Len(u)
             IN  (IF CountsAsArg(Upto(u, e)) THEN 1 ELSE 0) + NArgs(From(u, e))

\* CommandCompleter.get_completions, the cursor at the end of the document
CommandCompletions(n, t) ==
    LET args == CompleterArguments(n)
        nargs == NArgs(t)
    IN  WordCompletions(Words(n), t) \o SubSeq(args, nargs + 1, Len(args))

NoComp == [text |-> <<>>, self |-> NoNode, st |-> "none", node |-> NoNode, cands |-> <<>>]

\* (variant: the node's completer is asked whatever the text ends with)
NothingToCompleteNever(t, command_len, new_pos) == FALSE

\* "if command_len and not new_pos and
\*  document.text[document.cursor_position - 1] != '/': return"
NothingToComplete(t, command_len, new_pos) ==
    command_len # 0 /\ new_pos = 0 /\ t[Len(t)] # SL

\* TreeCompleter.get_completions, the cursor at the end of the text
get_completions(self, t) ==
    LET r == get_command(self, t, TRUE, TRUE)
        cursor_position == Len(t)
        new_pos == cursor_position - r.len
    IN  IF r.st # "ok"
        THEN [text |-> t, self |-> self, st |-> r.st, node |-> NoNode, cands |-> <<>>]
        ELSE IF NothingToComplete(t, r.len, new_pos)
        THEN [text |-> t, self |-> self, st |-> "ok", node |-> r.node, cands |-> <<>>]
        ELSE [text |-> t, self |-> self, st |-> "ok", node |-> r.node,
              cands |-> CommandCompletions(r.node, From(t, r.len))]

(***************************************************************************)
(* State machine                                                           *)
(***************************************************************************)
\* what the user can type in one go ("?" is the same prefix as "help" and is
\* left out to keep the set of lines small)
Pieces == {<<SP>>, <<SL>>, <<HASH>>, DOT, <<"a">>, <<"g">>, HELP}

NoRes == [prompt |-> <<>>, self |-> NoNode, pe |-> FALSE, partial |-> FALSE, out |-> NoCall]

NoTurn ==
    [kind |-> "none", line |-> <<>>, from |-> NoNode, node |-> NoNode, args |-> <<>>,
     cmd |-> "none", report |-> "none"]

\* the number of pieces a line is made of ("help" is typed as one piece)
RECURSIVE NumPieces(_)
NumPieces(s) ==
    IF s = <<>> THEN 0
    ELSE IF Len(s) >= 4 /\ SubSeq(s, 1, 4) = HELP THEN 1 + NumPieces(From(s, 4))
    ELSE 1 + NumPieces(Tail(s))

\* CommandTree.__init__
Init ==
    /\ pointer = Root
    /\ text = <<>>
    /\ res = NoRes
    /\ comp = NoComp
    /\ turn = NoTurn

\* the user edits the line in the prompt session
Type(p) ==
    /\ NumPieces(text) < MaxPieces
    /\ text' = text \o p
    /\ res' = NoRes
    /\ comp' = NoComp
    /\ turn' = NoTurn
    /\ UNCHANGED pointer

\* (variant: the resolver walks with the tree's own pointer)
PointerAfterWalked(self, st, node) == IF st = "ok" THEN node ELSE self

\* self._pointer after get_command: the walk uses the local variable
\* "pointer = self._pointer" and never assigns self._pointer
PointerAfter(self, st, node) == self

\* a call get_command(text, True, partial) on the current line
GetCommand(partial) ==
    LET out == get_command(pointer, text, TRUE, partial)
    IN  /\ res' = [prompt |-> text, self |-> pointer, pe |-> TRUE,
                   partial |-> partial, out |-> out]
        /\ pointer' = PointerAfter(pointer, out.st, out.node)
        /\ comp' = NoComp
        /\ turn' = NoTurn
        /\ UNCHANGED text

\* the line editor asks the tree's completer for the candidates of the line
Complete ==
    LET c == get_completions(pointer, text)
    IN  /\ comp' = c
        /\ pointer' = PointerAfter(pointer, c.st, c.node)
        /\ res' = NoRes
        /\ turn' = NoTurn
        /\ UNCHANGED text

\* what the click command invoked by Node.exec does: it returns, or it raises
ExecOutcomes == {"return", "SystemExit", "ClickException", "Abort", "Exception"}

\* (variant: click.Abort is not among the exceptions caught)
ExecReportNoAbort(outcome) ==
    CASE outcome \in {"return", "SystemExit"} -> "none"
      [] outcome = "ClickException" -> "ex.show()"
      [] outcome = "Abort" -> "raise"
      [] outcome = "Exception" -> "Exception:"

\* Node.exec: what is reported for what the command did ("raise" would be
\* an exception that leaves exec)
ExecReport(outcome) ==
    CASE outcome \in {"return", "SystemExit"} -> "none"
      [] outcome = "ClickException" -> "ex.show()"
      [] outcome = "Abort" -> "Aborted!"
      [] outcome = "Exception" -> "Exception:"

\* (variant: every group is navigated to, whatever the args)
NavigatesAnyGroup(command, args) == HasChildren(command)

\* "if command.children and not args"
Navigates(command, args) == HasChildren(command) /\ args = <<>>

\* CommandTree.goto
goto(command) == pointer' = command

\* CommandTree.repl: one turn on the submitted line; the command invoked (if
\* any) does cmd
Repl ==
    LET r == GetItem(pointer, text)
        t == [NoTurn EXCEPT !.line = text, !.from = pointer]
    IN  /\ IF r.st = "ValueError"
           THEN /\ turn' = [t EXCEPT !.kind = "crash", !.args = r.err, !.report = "raise"]
                /\ UNCHANGED pointer
           ELSE IF r.st = "KeyError"
           THEN /\ turn' = [t EXCEPT !.kind = "notfound", !.args = r.err,
                                     !.report = "Command not found:"]
                /\ UNCHANGED pointer
           ELSE IF Navigates(r.node, r.args)
           THEN /\ goto(r.node)
                /\ turn' = [t EXCEPT !.kind = "goto", !.node = r.node, !.args = r.args]
           ELSE /\ \E cmd \in ExecOutcomes :
                     turn' = [t EXCEPT !.kind = "exec", !.node = r.node, !.args = r.args,
                                      !.cmd = cmd, !.report = ExecReport(cmd)]
                /\ UNCHANGED pointer
        /\ text' = <<>>
        /\ res' = NoRes
        /\ comp' = NoComp

\* (variant: a command without children is accepted)
PathStatusAnyNode(r) ==
    IF r.st # "ok" THEN r.st
    ELSE IF r.args # <<>> THEN "ValueError"
    ELSE "ok"

\* CommandTree.path (setter): "ok", or the exception the assignment raises
PathStatus(r) ==
    IF r.st # "ok" THEN r.st
    ELSE IF r.args # <<>> THEN "ValueError"
    ELSE IF ~HasChildren(r.node) THEN "ValueError"
    ELSE "ok"

\* (variant: the pointer moves as soon as the path has resolved)
PathPointerEager(self, r, accepted) == IF r.st = "ok" THEN r.node ELSE self

\* the pointer after the assignment: "self.goto(command)" is its last statement
PathPointer(self, r, accepted) == IF accepted THEN r.node ELSE self

\* the program assigns the current line to CommandTree.path
SetPath ==
    LET r == GetItem(pointer, text)
        st == PathStatus(r)
    IN  /\ pointer' = PathPointer(pointer, r, st = "ok")
        /\ turn' = [NoTurn EXCEPT !.kind = "path", !.line = text, !.from = pointer,
                                  !.report = st]
        /\ res' = NoRes
        /\ comp' = NoComp
        /\ UNCHANGED text

Next ==
    \/ \E p \in Pieces : Type(p)
    \/ \E partial \in BOOLEAN : GetCommand(partial)
    \/ Complete
    \/ Repl
    \/ SetPath

Spec == Init /\ [][Next]_vars

(***************************************************************************)
(* Vocabulary of the properties                                            *)
(***************************************************************************)
\* the input line without its comment
Body(s) ==
    IF \E i \in 1..Len(s) : s[i] = HASH
    THEN SubSeq(s, 1, (CHOOSE i \in 1..Len(s) :
                         /\ s[i] = HASH
                         /\ \A j \in 1..(i - 1) : s[j] # HASH) - 1)
    ELSE s

\* every character of s from 0-based offset n on is a space
OnlySpacesFrom(s, n) == \A i \in (n + 1)..Len(s) : s[i] = SP

\* the last call of get_command returned / returned without a prefix handler
Returned == res.out.st = "ok"

ReturnedPlain == Returned /\ ~res.out.viaPrefix

(***************************************************************************)
(* C1: whenever get_command returns without having gone through a prefix   *)
(* handler (partial or not), consumedLength is an index into the input:    *)
(* with non-empty args the input at that index starts with args, args is   *)
(* the trimmed rest of the line and nothing but spaces follows it; with    *)
(* empty args only spaces follow the index and the index is not preceded   *)
(* by a space (it sits right after the path and its trailing '/').         *)
(***************************************************************************)
C1_ConsumedLengthIsArgsStart ==
    ReturnedPlain =>
        LET body == Body(res.prompt)
            n == res.out.len
            a == res.out.args
        IN  /\ n \in 0..Len(body)
            /\ a # <<>> =>
                  /\ OccursAt(res.prompt, a, n)
                  /\ a[1] # SP /\ a[Len(a)] # SP
                  /\ OnlySpacesFrom(body, n + Len(a))
            /\ a = <<>> =>
                  /\ OnlySpacesFrom(body, n)
                  /\ n = 0 \/ body[n] # SP

\* non-partial call, args separated from the command by a space
C1_Witness ==
    /\ ReturnedPlain /\ ~res.partial
    /\ res.out.args # <<>>
    /\ res.out.len >= 2
    /\ res.prompt[res.out.len] = SP


(***************************************************************************)
(* Redundant separators                                                    *)
(***************************************************************************)
IsSep(c) == c \in {SP, SL}

InsertAt(s, i, c) == SubSeq(s, 1, i) \o <<c>> \o SubSeq(s, i + 1, Len(s))

\* the first character that is not a space is a '/'
RootedLine(s) == \E i \in 1..Len(s) : s[i] = SL /\ \A j \in 1..(i - 1) : s[j] = SP

\* the lines obtained from s by one more '/' or space next to a separator,
\* or one more space at either end, a relative line staying relative
Redundant(s) ==
    {InsertAt(s, i, c) : <<i, c>> \in
        {ic \in (0..Len(s)) \X {SP, SL} :
            /\ \/ ic[1] > 0 /\ IsSep(s[ic[1]])
               \/ ic[1] < Len(s) /\ IsSep(s[ic[1] + 1])
               \/ ic[2] = SP /\ ic[1] \in {0, Len(s)}
            /\ RootedLine(InsertAt(s, ic[1], ic[2])) => RootedLine(s)}}

\* 0-based offset behind the last character that is not a separator
TrailStart(s) ==
    IF \A i \in 1..Len(s) : IsSep(s[i]) THEN 0
    ELSE CHOOSE i \in 1..Len(s) : ~IsSep(s[i]) /\ \A j \in (i + 1)..Len(s) : IsSep(s[j])

\* behind the last name of s a '/' comes after a space
SpaceThenSlashTrail(s) ==
    \E i, j \in (TrailStart(s) + 1)..Len(s) : i < j /\ s[i] = SP /\ s[j] = SL

\* the last call resolved a line made of separators and child names only,
\* every name having been consumed as a path segment
PurePathCall ==
    /\ ReturnedPlain
    /\ res.out.args = <<>>
    /\ \A i \in 1..Len(res.prompt) : res.prompt[i] \notin {".", HASH}

SameNodeAndArgs(r1, r2) == r1.st = "ok" /\ r2.st = "ok" /\ r1.node = r2.node /\ r1.args = r2.args

(***************************************************************************)
(* C2 as stated: one more redundant separator never changes (node, args)   *)
(* of a line built from separators and child names.                        *)
(***************************************************************************)
C2_Original ==
    PurePathCall =>
        \A s2 \in Redundant(res.prompt) :
            SameNodeAndArgs(res.out, get_command(res.self, s2, TRUE, res.partial))

(***************************************************************************)
(* C2 (amended): one more redundant separator does not change (node, args) *)
(* when the line resolves to a group; when it resolves to a leaf it does   *)
(* not change them unless it puts a space before a '/' behind the leaf's   *)
(* name (that '/' is then the start of args).                              *)
(***************************************************************************)
C2_RedundantSeparators ==
    PurePathCall =>
        \A s2 \in Redundant(res.prompt) :
            (HasChildren(res.out.node) \/ ~SpaceThenSlashTrail(s2)) =>
                SameNodeAndArgs(res.out, get_command(res.self, s2, TRUE, res.partial))

\* a two-segment path down to a leaf, written with a '/'
C2_Witness ==
    /\ PurePathCall
    /\ res.out.node = "/g/aa"
    /\ res.self = Root
    /\ \E i \in 1..Len(res.prompt) : res.prompt[i] = SL

(***************************************************************************)
(* Tokens of a line, and the nodes a line can lead to                      *)
(***************************************************************************)
\* the maximal runs of characters of s that are not separators, from 0-based
\* offset i on, each with the offset of its first character
RECURSIVE TokensFrom(_, _)
TokensFrom(s, i) ==
    IF i >= Len(s) THEN <<>>
    ELSE IF IsSep(s[i + 1]) THEN TokensFrom(s, i + 1)
    ELSE LET e == CHOOSE j \in (i + 1)..Len(s) :
                    /\ \A k \in (i + 1)..j : ~IsSep(s[k])
                    /\ j < Len(s) => IsSep(s[j + 1])
         IN  <<[at |-> i, tok |-> SubSeq(s, i + 1, e)]>> \o TokensFrom(s, e)

Tokens(s) == TokensFrom(Body(s), 0)

\* the node where the resolution of line s starts when the pointer is at p
StartNode(p, s) == IF RootedLine(Body(s)) THEN Root ELSE p

\* the nodes met when following the tokens toks from node n for as long as
\* they can be followed; a prefix name in first position is stepped over
RECURSIVE Followed(_, _, _)
Followed(n, toks, first) ==
    {n} \cup
    IF toks = <<>> \/ ~HasChildren(n) THEN {}
    ELSE LET t == toks[1].tok
         IN  IF t = DOTDOT THEN Followed(Up(n), Tail(toks), FALSE)
             ELSE IF t = DOT THEN Followed(n, Tail(toks), FALSE)
             ELSE IF HasChild(n, t) THEN Followed(Child(n, t), Tail(toks), FALSE)
             ELSE IF first /\ t \in Prefixes THEN Followed(n, Tail(toks), FALSE)
             ELSE {}

(***************************************************************************)
(* C3: partial mode never raises: a call get_command(line, partial=True)   *)
(* with prefixes enabled always returns, and the node it returns is met by *)
(* following a prefix of the tokens of the line from the start node.       *)
(***************************************************************************)
C3_PartialNeverRaises ==
    (res.out.st # "none" /\ res.partial) =>
        /\ Returned
        /\ res.out.node \in Followed(StartNode(res.self, res.prompt), Tokens(res.prompt), TRUE)

(***************************************************************************)
(* C4: the completion engine never raises, whatever the text and the       *)
(* pointer; at worst it yields no candidate.                               *)
(***************************************************************************)
C4_CompletionNeverRaises == comp.st \in {"none", "ok"}

(***************************************************************************)
(* C5 as stated: for a child cmd of the pointer without a child named      *)
(* 'help', 'help cmd' returns (cmd, '--help', offset) while non-partial    *)
(* 'cmd help' raises KeyError('help'), for a group and for a leaf alike.   *)
(***************************************************************************)
Called == res.out.st # "none"

HelpThen(c) == HELP \o <<SP>> \o NodeName[c]

ThenHelp(c) == NodeName[c] \o <<SP>> \o HELP

C5_Original ==
    Called =>
        \A c \in ChildSet(res.self) :
            ~HasChild(c, HELP) =>
                /\ res.prompt = HelpThen(c) =>
                        res.out = Ok(c, DASHHELP, Len(res.prompt), TRUE)
                /\ (res.prompt = ThenHelp(c) /\ ~res.partial) =>
                        res.out = Raise("KeyError", HELP)

(***************************************************************************)
(* C5 (amended): for a child cmd without a child named 'help': when the    *)
(* pointer has no child named 'help' either, 'help cmd' returns            *)
(* (cmd, '--help', end of the line); non-partial 'cmd help' raises         *)
(* KeyError('help') when cmd is a group, and returns (cmd, 'help', offset  *)
(* of 'help') when cmd is a leaf.                                          *)
(***************************************************************************)
C5_PrefixOneShot ==
    Called =>
        \A c \in ChildSet(res.self) :
            ~HasChild(c, HELP) =>
                /\ (res.prompt = HelpThen(c) /\ ~HasChild(res.self, HELP)) =>
                        res.out = Ok(c, DASHHELP, Len(res.prompt), TRUE)
                /\ (res.prompt = ThenHelp(c) /\ ~res.partial) =>
                        res.out = IF HasChildren(c)
                                  THEN Raise("KeyError", HELP)
                                  ELSE Ok(c, HELP, Len(NodeName[c]) + 1, FALSE)

\* 'g help' with the pointer at /g: the group /g/g has no child 'help'
C5_Witness ==
    /\ res.self = "/g"
    /\ res.prompt = ThenHelp("/g/g")
    /\ res.out = Raise("KeyError", HELP)

(***************************************************************************)
(* C6: absolute addressing overrides the pointer: for a line '/' + x, x    *)
(* not starting with a separator, get_command at any pointer has the       *)
(* outcome of get_command at the root on x (same node and args, or same    *)
(* error), with a consumedLength larger by one; also when x starts with a  *)
(* prefix such as 'help'.                                                  *)
(***************************************************************************)
AbsoluteOf(s) == Len(s) >= 1 /\ s[1] = SL /\ (Len(s) >= 2 => ~IsSep(s[2]))

C6_AbsoluteOverridesPointer ==
    (Called /\ AbsoluteOf(res.prompt)) =>
        LET r0 == get_command(Root, Tail(res.prompt), TRUE, res.partial)
        IN  /\ res.out.st = r0.st
            /\ res.out.node = r0.node
            /\ res.out.args = r0.args
            /\ res.out.err = r0.err
            /\ Returned => res.out.len = r0.len + 1

(***************************************************************************)
(* C7: comment stripping: for a line s without '#' and any text t,         *)
(* get_command(s + ' #' + t) has the outcome of get_command(s): the same   *)
(* error, or the same (node, args, consumedLength).                        *)
(***************************************************************************)
CommentTexts == {<<>>, <<SP>>, <<"a">>, <<HASH>>, <<SL, "g">>, <<SP, "a", SP>>}

C7_CommentStripping ==
    (Called /\ ~Contains(res.prompt, HASH)) =>
        \A t \in CommentTexts :
            get_command(res.self, res.prompt \o <<SP, HASH>> \o t, TRUE, res.partial) = res.out

(***************************************************************************)
(* The walk of a line: the tokens followed one by one from the start node, *)
(* by name, up to the first one that cannot be followed or up to a leaf    *)
(***************************************************************************)
\* the children of n called t, by the names of the tree
Named(n, t) == {c \in Nodes : Parent[c] = n /\ NodeName[c] = t}

\* node reached and index of the first token left (0 when none is left)
RECURSIVE Walk(_, _, _)
Walk(n, toks, k) ==
    IF k > Len(toks) THEN [node |-> n, k |-> 0]
    ELSE IF ~HasChildren(n) THEN [node |-> n, k |-> k]
    ELSE LET t == toks[k].tok
         IN  IF t = DOTDOT THEN Walk(Up(n), toks, k + 1)
             ELSE IF t = DOT THEN Walk(n, toks, k + 1)
             ELSE IF Named(n, t) # {} THEN Walk(CHOOSE c \in Named(n, t) : TRUE, toks, k + 1)
             ELSE [node |-> n, k |-> k]

WalkOf == Walk(StartNode(res.self, res.prompt), Tokens(res.prompt), 1)

\* the walk of the last line stopped in a group, on a token that is no child
Unmatched == WalkOf.k > 0 /\ HasChildren(WalkOf.node)

FailingToken == Tokens(res.prompt)[WalkOf.k]

\* offset at of line s is where its first piece starts: only spaces, then at
\* most one '/', come before it
FirstPiece(s, at) ==
    \E j \in 0..at :
        /\ \A i \in 1..j : s[i] = SP
        /\ at = j \/ (at = j + 1 /\ s[at] = SL)

\* the failing token is taken as a prefix: it names one and is the first piece
TakenAsPrefix ==
    /\ WalkOf.k = 1
    /\ FailingToken.tok \in Prefixes
    /\ FirstPiece(res.prompt, FailingToken.at)

\* the last call returned (n, a, l)
Returns(n, a, l) ==
    Returned /\ res.out.node = n /\ res.out.args = a /\ res.out.len = l

(***************************************************************************)
(* C8: in non-partial mode, when the node reached has children and the     *)
(* next token other than '.' and '..' equals no child name and is not      *)
(* taken as a prefix, get_command raises KeyError with exactly that token  *)
(* as argument; a proper prefix of a child name does not match.            *)
(***************************************************************************)
C8_UnknownCommandRaises ==
    (Called /\ ~res.partial /\ Unmatched /\ ~TakenAsPrefix) =>
        res.out = Raise("KeyError", FailingToken.tok)

\* 'a' with the pointer at /g, whose child is 'aa'
C8_Witness ==
    /\ ~res.partial
    /\ res.self = "/g"
    /\ res.prompt = <<"a">>
    /\ res.out = Raise("KeyError", <<"a">>)

(***************************************************************************)
(* C9 as stated: in partial mode, on a token that matches no child of the  *)
(* node reached, get_command returns that node, the trimmed rest of the    *)
(* line from the failing token on, and the offset of the failing token.    *)
(***************************************************************************)
C9_Original ==
    (Called /\ res.partial /\ Unmatched) =>
        Returns(WalkOf.node,
                Strip(From(Body(res.prompt), FailingToken.at)),
                FailingToken.at)

(***************************************************************************)
(* C9 (amended): the same, for a failing token that is not taken as a      *)
(* prefix (a registered prefix name met as the first piece of the line is  *)
(* handed to its handler instead); the result does not come from a prefix  *)
(* handler.                                                                *)
(***************************************************************************)
C9_PartialStopsAtFailingToken ==
    (Called /\ res.partial /\ Unmatched /\ ~TakenAsPrefix) =>
        res.out = Ok(WalkOf.node,
                     Strip(From(Body(res.prompt), FailingToken.at)),
                     FailingToken.at,
                     FALSE)

\* 'g a' at the root: /g is matched, 'a' is no child of /g
C9_Witness ==
    /\ res.partial
    /\ res.self = Root
    /\ res.prompt = <<"g", SP, "a">>
    /\ res.out = Ok("/g", <<"a">>, 2, FALSE)

(***************************************************************************)
(* Behind a leaf                                                           *)
(***************************************************************************)
\* the walk of the last line reached a leaf
LeafReached == Called /\ ~HasChildren(WalkOf.node)

\* offset behind the name of the leaf (the last token followed)
LeafEnd ==
    LET toks == Tokens(res.prompt)
        i == IF WalkOf.k = 0 THEN Len(toks) ELSE WalkOf.k - 1
    IN  toks[i].at + Len(toks[i].tok)

\* offset behind the run of '/' that starts at offset i of s
SlashRunEnd(s, i) ==
    CHOOSE j \in i..Len(s) :
        /\ \A k \in (i + 1)..j : s[k] = SL
        /\ j < Len(s) => s[j + 1] # SL

(***************************************************************************)
(* C10: only whitespace separates a leaf from its args.  For a line made   *)
(* of the path of a leaf L, one or more '/' and then directly a text that  *)
(* starts and ends with a character other than a separator, non-partial    *)
(* get_command raises KeyError carrying that text and partial get_command  *)
(* returns (L, text, offset of text); when the optional run of '/' is      *)
(* followed by a space, both modes return L with the trimmed remainder as  *)
(* args, even if it starts with '/'.                                       *)
(***************************************************************************)
C10_LeafArgsNeedSpace ==
    LeafReached =>
        LET line == Body(res.prompt)
            j == SlashRunEnd(line, LeafEnd)
            txt == From(line, j)
        IN  /\ (j > LeafEnd /\ txt # <<>> /\ txt[1] # SP /\ txt[Len(txt)] # SP) =>
                  res.out = IF res.partial
                            THEN Ok(WalkOf.node, txt, j, FALSE)
                            ELSE Raise("KeyError", txt)
            /\ (txt # <<>> /\ txt[1] = SP) =>
                  /\ Returned
                  /\ res.out.node = WalkOf.node
                  /\ res.out.args = Strip(txt)

\* 'a/g' at the root, not partial: 'g' sits directly behind the '/'
C10_Witness ==
    /\ ~res.partial
    /\ res.self = Root
    /\ res.prompt = <<"a", SL, "g">>
    /\ res.out = Raise("KeyError", <<"g">>)

(***************************************************************************)
(* REPL turns.  The state right after a turn holds its record: the line    *)
(* submitted, the pointer before the turn (from) and what the turn did.    *)
(***************************************************************************)
\* the last step was one REPL turn
IsReplTurn == turn.kind \in {"crash", "notfound", "goto", "exec"}

\* the resolution of the line of the last turn
Resolved == GetItem(turn.from, turn.line)

\* what can go wrong in the invoked command
CommandFailures == {"ClickException", "Abort", "Exception"}

(***************************************************************************)
(* C11: a REPL turn whose line resolves has exactly one of two outcomes:   *)
(* when the resolved node has children and args is empty, the pointer      *)
(* becomes that node and nothing is invoked; otherwise the node is invoked *)
(* with args and the pointer stays where it was.                           *)
(***************************************************************************)
C11_NavigateXorInvoke ==
    (IsReplTurn /\ Resolved.st = "ok") =>
        IF HasChildren(Resolved.node) /\ Resolved.args = <<>>
        THEN /\ pointer = Resolved.node
             /\ turn.kind = "goto"
             /\ turn.cmd = "none"
        ELSE /\ pointer = turn.from
             /\ turn.kind = "exec"
             /\ turn.node = Resolved.node
             /\ turn.args = Resolved.args
             /\ turn.cmd \in ExecOutcomes

\* 'help g' at the root: the group /g is invoked with '--help', no navigation
C11_Witness ==
    /\ turn.kind = "exec"
    /\ turn.from = Root
    /\ turn.node = "/g"
    /\ turn.args = DASHHELP
    /\ pointer = Root

(***************************************************************************)
(* C12: a REPL turn that fails (the line does not resolve, or the invoked  *)
(* command aborts or raises) reports the failure, returns without letting  *)
(* the error out, and leaves the pointer as it was before the turn,        *)
(* wherever earlier turns have put it.                                     *)
(***************************************************************************)
C12_FailedTurnKeepsPointer ==
    (IsReplTurn /\ (Resolved.st # "ok" \/ turn.cmd \in CommandFailures)) =>
        /\ pointer = turn.from
        /\ turn.kind \in {"notfound", "exec"}
        /\ turn.report \notin {"none", "raise"}
        /\ turn.kind = "notfound" =>
              /\ turn.report = "Command not found:"
              /\ turn.args = Resolved.err

\* the command invoked from /g aborts: reported, pointer still at /g
C12_Witness ==
    /\ turn.kind = "exec"
    /\ turn.cmd = "Abort"
    /\ turn.report = "Aborted!"
    /\ turn.from = "/g"
    /\ pointer = "/g"

(***************************************************************************)
(* C13: assigning CommandTree.path is all-or-nothing.  When the path does  *)
(* not resolve the assignment raises KeyError; when it resolves to a leaf  *)
(* or leaves args (as every line taken by a prefix does) it raises         *)
(* ValueError; in both cases the pointer is as before.  Otherwise the      *)
(* pointer becomes the resolved node, which is a group.                    *)
(***************************************************************************)
C13_PathAssignment ==
    turn.kind = "path" =>
        IF Resolved.st # "ok"
        THEN turn.report = "KeyError" /\ pointer = turn.from
        ELSE IF ~HasChildren(Resolved.node) \/ Resolved.args # <<>> \/ Resolved.viaPrefix
        THEN turn.report = "ValueError" /\ pointer = turn.from
        ELSE turn.report = "ok" /\ pointer = Resolved.node /\ HasChildren(pointer)

\* 'help g' assigned at /g/g: it resolves to the group /g but leaves '--help'
C13_Witness ==
    /\ turn.kind = "path"
    /\ turn.from = "/g/g"
    /\ turn.line = HELP \o <<SP, SL, "g">>
    /\ turn.report = "ValueError"
    /\ pointer = "/g/g"

(***************************************************************************)
(* C14: resolution and completion have no effect on the pointer: after a   *)
(* call of get_command (either mode, returning or raising) and after a     *)
(* call of get_completions the pointer is the one the call started from,   *)
(* so that the pointer only depends on the lines submitted.  (The tree is  *)
(* the same in every state.)                                               *)
(***************************************************************************)
C14_ResolutionKeepsPointer ==
    /\ res.out.st # "none" => pointer = res.self
    /\ comp.st # "none" => pointer = comp.self

\* a completion call at /g that resolved down to /g/g
C14_Witness ==
    /\ comp.st = "ok"
    /\ comp.self = "/g"
    /\ comp.node = "/g/g"
    /\ pointer = "/g"

(***************************************************************************)
(* Candidates                                                              *)
(***************************************************************************)
\* the candidates of the last completion call, as a set
Candidates == {comp.cands[i] : i \in 1..Len(comp.cands)}

(***************************************************************************)
(* C15: the hidden flag only affects completion.  A hidden child is never  *)
(* among the candidates of the completer of its parent, and get_command    *)
(* resolves the exact name of any child, hidden or not, to that child with *)
(* empty args, in both modes.                                              *)
(***************************************************************************)
C15_HiddenOnlyHidesCompletion ==
    /\ \A h \in Hidden :
          (comp.st = "ok" /\ comp.node = Parent[h]) => NodeName[h] \notin Candidates
    /\ \A c \in Nodes \ {Root} :
          (Called /\ res.self = Parent[c] /\ res.prompt = NodeName[c]) =>
              res.out = Ok(c, <<>>, Len(NodeName[c]), FALSE)

\* the completer of /g on an empty line offers its children but 'help'
C15_Witness ==
    /\ comp.st = "ok"
    /\ comp.self = "/g"
    /\ comp.text = <<>>
    /\ comp.cands = << <<"a", "a">>, <<"g">> >>
    /\ "/g/help" \in Hidden

(***************************************************************************)
(* Lines that start with a prefix                                          *)
(***************************************************************************)
\* the first token of line s names a prefix, is the first piece of the line
\* and is no child of the node the resolution starts from
StartsWithPrefix(p, s) ==
    LET toks == Tokens(s)
    IN  /\ toks # <<>>
        /\ toks[1].tok \in Prefixes
        /\ FirstPiece(s, toks[1].at)
        /\ Named(StartNode(p, s), toks[1].tok) = {}

\* offset behind the first token of s
AfterFirstToken(s) == Tokens(s)[1].at + Len(Tokens(s)[1].tok)

\* what a call on line s at pointer p must give when the prefix that starts s
\* ends at offset n: the resolution of the remainder from p, prefixes
\* disabled, with args forced to '--help' and the offsets shifted by n
Delegated(p, s, n, partial, out) ==
    LET remain == From(Body(s), n)
        r == get_command(p, remain, FALSE, partial)
    IN  IF Strip(remain) = <<>> THEN out = Ok(p, DASHHELP, n, TRUE)
        ELSE IF r.st = "ok" THEN out = Ok(r.node, DASHHELP, n + r.len, TRUE)
        ELSE out.st = r.st /\ out.err = r.err

(***************************************************************************)
(* C16: for a line whose first token is the 'help' or '?' prefix followed  *)
(* by a space and a remainder, get_command returns the node the remainder  *)
(* resolves to from the current pointer with prefixes disabled, args       *)
(* '--help' whatever was typed behind the target, and the offset behind    *)
(* the prefix plus the consumedLength of the remainder; with an empty or   *)
(* blank remainder it returns the current pointer and the offset behind    *)
(* the prefix.  Stated for the line of the last call, and for the line of  *)
(* the last call put behind each prefix.                                   *)
(***************************************************************************)
C16_HelpPrefix ==
    Called =>
        /\ (/\ StartsWithPrefix(res.self, res.prompt)
            /\ LET n == AfterFirstToken(res.prompt)
               IN  n = Len(Body(res.prompt)) \/ Body(res.prompt)[n + 1] = SP) =>
                 Delegated(res.self, res.prompt, AfterFirstToken(res.prompt),
                           res.partial, res.out)
        /\ \A pre \in Prefixes :
              Named(res.self, pre) = {} =>
                  LET line == pre \o <<SP>> \o res.prompt
                  IN  Delegated(res.self, line, Len(pre), res.partial,
                                get_command(res.self, line, TRUE, res.partial))

\* 'help g' at the root
C16_Witness ==
    /\ res.self = Root
    /\ res.prompt = HELP \o <<SP, "g">>
    /\ res.out = Ok("/g", DASHHELP, 6, TRUE)

(***************************************************************************)
(* C17: a prefix is honoured only when a space or the end of the line      *)
(* follows it: when the character right behind the prefix token is         *)
(* anything else (a '/'), get_command raises KeyError for that token in    *)
(* partial mode as in non-partial mode, and the handler is not called.     *)
(***************************************************************************)
C17_PrefixNeedsSpace ==
    (/\ Called
     /\ StartsWithPrefix(res.self, res.prompt)
     /\ LET n == AfterFirstToken(res.prompt)
        IN  n < Len(Body(res.prompt)) /\ Body(res.prompt)[n + 1] # SP) =>
        res.out = Raise("KeyError", Tokens(res.prompt)[1].tok)

(***************************************************************************)
(* What is typed behind a leaf command                                     *)
(***************************************************************************)
\* the text handed to the completer of the node: the document from the
\* consumed length on
HandedText(c) == From(c.text, get_command(c.self, c.text, TRUE, TRUE).len)

\* the completion call c was answered by the completer of a leaf command
AsksLeaf(c) ==
    /\ c.st = "ok"
    /\ ~HasChildren(c.node)
    /\ LET n == get_command(c.self, c.text, TRUE, TRUE).len
       IN  n = 0 \/ n < Len(c.text) \/ c.text[Len(c.text)] = SL

\* the offsets (from 1) at which the white-space separated terms of d start
TermStarts(d) == {i \in 1..Len(d) : d[i] # SP /\ (i = 1 \/ d[i - 1] = SP)}

\* the term of d that starts at i
TermAt(d, i) ==
    SubSeq(d, i, CHOOSE j \in i..Len(d) :
                    /\ \A k \in i..j : d[k] # SP
                    /\ j = Len(d) \/ d[j + 1] = SP)

OptionNames(n) == {Options[n][i].name : i \in 1..Len(Options[n])}

\* the number of terms of d without '=', and of those that are no option name
TypedTokens(d) ==
    Cardinality({i \in TermStarts(d) : ~Contains(TermAt(d, i), "=")})

NonOptionTokens(n, d) ==
    Cardinality({i \in TermStarts(d) :
                    ~Contains(TermAt(d, i), "=") /\ TermAt(d, i) \notin OptionNames(n)})

\* the positional placeholders of leaf n that are not hidden, in declared order
Placeholders(n) ==
    LET vis == SelectSeq(Arguments[n], LAMBDA e : ~e.hidden)
    IN  [i \in 1..Len(vis) |-> vis[i].name]

\* the placeholders among the candidates of c, in the order offered
OfferedPlaceholders(c) ==
    SelectSeq(c.cands, LAMBDA x : \E i \in 1..Len(Arguments[c.node]) :
                                      Arguments[c.node][i].name = x)

\* texts typed behind a line: a flag, a flag being typed, an option with its
\* value, two plain words
LeafTexts == {<<"-", "f", SP>>, <<"-", "f">>, <<"k", "=", "v", SP>>, <<"x", SP, "y", SP>>}

\* the completion calls looked at: the last one, and the ones on its text
\* continued by one of LeafTexts
CallsOnLeaf ==
    {c \in {comp} \cup {get_completions(comp.self, comp.text \o t) : t \in LeafTexts} :
        AsksLeaf(c)}

(***************************************************************************)
(* C18 as stated: the n-th placeholder (from 0) of a leaf is offered only  *)
(* when exactly n tokens that have no '=' and are no option name have been *)
(* typed, and at most one placeholder is offered at a time.                *)
(***************************************************************************)
C18_Original ==
    comp.st = "ok" =>
        \A c \in CallsOnLeaf :
            /\ Len(OfferedPlaceholders(c)) <= 1
            /\ \A i \in 1..Len(Placeholders(c.node)) :
                  (\E k \in 1..Len(c.cands) : c.cands[k] = Placeholders(c.node)[i]) =>
                      i - 1 = NonOptionTokens(c.node, HandedText(c))

(***************************************************************************)
(* C18 (amended): the completer of a leaf offers, behind its options, all  *)
(* the visible placeholders from the n-th on (from 0, in declared order),  *)
(* n being the number of white-space separated tokens without '=' typed    *)
(* behind the command, option flags and the token under the cursor         *)
(* included; a placeholder whose index is below n is never offered.        *)
(***************************************************************************)
C18_PlaceholdersFromNth ==
    comp.st = "ok" =>
        \A c \in CallsOnLeaf :
            LET n == TypedTokens(HandedText(c))
                all == Placeholders(c.node)
            IN  OfferedPlaceholders(c) = SubSeq(all, n + 1, Len(all))

\* 'a a ' at the root: one token typed behind /a, the second placeholder is
\* what is left
C18_Witness ==
    /\ comp.st = "ok"
    /\ comp.node = "/a"
    /\ comp.text = <<"a", SP, "a", SP>>
    /\ OfferedPlaceholders(comp) = << <<"Z">> >>
    /\ Len(Placeholders("/a")) = 2

(***************************************************************************)
(* Options of a leaf command                                               *)
(***************************************************************************)
\* the options of leaf n that are not hidden, in declared order
VisibleOptions(n) ==
    LET vis == SelectSeq(Options[n], LAMBDA e : ~e.hidden)
    IN  [i \in 1..Len(vis) |-> vis[i].name]

\* the flags among them: the options that take no value
Flags(n) == {VisibleOptions(n)[i] : i \in 1..Len(VisibleOptions(n))} \ {o \in OptionNames(n) : Contains(o, "=")}

\* the options among the candidates of c, in the order offered
OfferedOptions(c) == SelectSeq(c.cands, LAMBDA x : x \in OptionNames(c.node))

\* the last completion call was on the path of a leaf followed by a space
PathThenSpace ==
    /\ AsksLeaf(comp)
    /\ comp.text # <<>>
    /\ comp.text[Len(comp.text)] = SP
    /\ Strip(HandedText(comp)) = <<>>

\* the completion call on that text continued by flag f and a space
AfterFlag(f) == get_completions(comp.self, comp.text \o f \o <<SP>>)

AsksGroup(c) ==
    /\ c.st = "ok"
    /\ HasChildren(c.node)
    /\ LET n == get_command(c.self, c.text, TRUE, TRUE).len
       IN  n = 0 \/ n < Len(c.text) \/ c.text[Len(c.text)] = SL

\* the remainder typed behind the group, leading spaces trimmed
Remainder(c) == LStrip(HandedText(c))

NoSeparator(r) == \A i \in 1..Len(r) : ~IsSep(r[i])

\* the tokens of the text of c that come before the remainder
EarlierTokens(c) ==
    LET before == Upto(c.text, Len(c.text) - Len(Remainder(c)))
        toks == TokensFrom(before, 0)
    IN  {toks[i].tok : i \in 1..Len(toks)}

\* the names of the children of group n that are not hidden, in declared order
VisibleChildren(n) ==
    LET vis == SelectSeq(Children[n], LAMBDA c : c \notin Hidden)
    IN  [i \in 1..Len(vis) |-> NodeName[vis[i]]]

\* the last run of characters of r (r without space) that are all word
\* characters or all other characters
LastRun(r) ==
    IF r = <<>> THEN <<>>
    ELSE LET same(i) == (r[i] \in Punct) = (r[Len(r)] \in Punct)
             k == CHOOSE i \in 1..Len(r) :
                     /\ \A j \in i..Len(r) : same(j)
                     /\ i = 1 \/ ~same(i - 1)
         IN  SubSeq(r, k, Len(r))

(***************************************************************************)
(* C20 as stated: behind a group G and a remainder r without separator,    *)
(* the candidates are, in declared order, the children of G that are not   *)
(* hidden, whose name starts with r, and whose name is no earlier token of *)
(* the input.                                                              *)
(***************************************************************************)
C20_Original ==
    (AsksGroup(comp) /\ NoSeparator(Remainder(comp))) =>
        comp.cands = SelectSeq(VisibleChildren(comp.node), LAMBDA nm :
                          /\ StartsWith(nm, Remainder(comp))
                          /\ nm \notin EarlierTokens(comp))

(***************************************************************************)
(* C20 (amended): behind a group G and a remainder r without separator,    *)
(* the candidates are, in declared order, the children of G that are not   *)
(* hidden and whose name starts with the word before the cursor, that is   *)
(* the last run of r made of word characters only or of other characters   *)
(* only (r itself when r is made of word characters); a name that already  *)
(* is an earlier token of the input is offered all the same; an empty r    *)
(* lists every child that is not hidden.                                   *)
(***************************************************************************)
C20_GroupPrefixFilter ==
    (AsksGroup(comp) /\ NoSeparator(Remainder(comp))) =>
        comp.cands = SelectSeq(VisibleChildren(comp.node), LAMBDA nm :
                          StartsWith(nm, LastRun(Remainder(comp))))

\* 'g/' at the root: the children of /g but the hidden one; 'g' is offered
\* although 'g' is a token of the line
C20_Witness ==
    /\ AsksGroup(comp)
    /\ comp.self = Root
    /\ comp.text = <<"g", SL>>
    /\ comp.cands = << <<"a", "a">>, <<"g">> >>
    /\ <<"g">> \in EarlierTokens(comp)

(***************************************************************************)
(* The text is consumed up to the cursor                                   *)
(***************************************************************************)
\* the partial resolution of the text of c returned and consumed all of it
ConsumedWhole(c) ==
    LET r == get_command(c.self, c.text, TRUE, TRUE)
    IN  r.st = "ok" /\ r.len # 0 /\ r.len = Len(c.text)

\* everything the completer of node n has to offer: the children of a group,
\* the options then the positional placeholders of a leaf, the hidden ones
\* left out, in declared order
AllCandidates(n) ==
    IF HasChildren(n) THEN VisibleChildren(n) ELSE VisibleOptions(n) \o Placeholders(n)

(***************************************************************************)
(* C21: with the cursor at the end of the text, when the partial           *)
(* resolution consumes the whole text (a consumed length that is not zero  *)
(* and equals the cursor position), the completion set is empty if the     *)
(* character before the cursor is not '/'; if it is '/', the candidates    *)
(* are all those of the resolved node, its completer being asked with an   *)
(* empty document.                                                         *)
(***************************************************************************)
C21_ConsumedTextCompletion ==
    (comp.st = "ok" /\ ConsumedWhole(comp)) =>
        /\ comp.node = get_command(comp.self, comp.text, TRUE, TRUE).node
        /\ IF comp.text[Len(comp.text)] # SL
           THEN comp.cands = <<>>
           ELSE /\ HandedText(comp) = <<>>
                /\ comp.cands = AllCandidates(comp.node)

\* 'g/g' at the root is consumed whole and ends with a letter: nothing is
\* offered, although /g/g has a child
C21_Witness ==
    /\ comp.st = "ok"
    /\ ConsumedWhole(comp)
    /\ comp.text = <<"g", SL, "g">>
    /\ comp.node = "/g/g"
    /\ comp.cands = <<>>
    /\ AllCandidates(comp.node) # <<>>

(***************************************************************************)
(* Completion behind the help prefix                                       *)
(***************************************************************************)
\* the completion call on 'help ' followed by the text of c
BehindHelp(c) == get_completions(c.self, HELP \o <<SP>> \o c.text)

(***************************************************************************)
(* C22 as stated: for any pointer and any text s, the completion set for   *)
(* 'help ' followed by s equals the completion set for s.                  *)
(***************************************************************************)
C22_Original ==
    comp.st # "none" =>
        /\ BehindHelp(comp).st = comp.st
        /\ BehindHelp(comp).cands = comp.cands

\* 'help a' at the root offers nothing (the leaf /a is resolved and the text
\* is consumed whole) while 'help help a' offers 'a': the second 'help' is an
\* unmatched token, so the root's completer is asked with 'help a'
C22_OriginalFails ==
    /\ comp.self = Root
    /\ comp.text = HELP \o <<SP, "a">>
    /\ comp.cands = <<>>
    /\ BehindHelp(comp).cands = << <<"a">> >>

(***************************************************************************)
(* C22 (amended): for a pointer that has no child named 'help' and a text  *)
(* s whose first token is not itself a prefix delegated to its handler,    *)
(* both completion calls return and the candidates for 'help ' followed by *)
(* s are those for s, in the same order.                                   *)
(***************************************************************************)
C22_HelpUnwrapping ==
    (/\ comp.st # "none"
     /\ Named(comp.self, HELP) = {}
     /\ ~StartsWithPrefix(comp.self, comp.text)) =>
        /\ BehindHelp(comp).st = "ok"
        /\ comp.st = "ok"
        /\ BehindHelp(comp).cands = comp.cands

\* 'g/' at the root: 'help g/' lists the children of /g as 'g/' does; the
\* help call went through the prefix handler
C22_Witness ==
    /\ comp.st = "ok"
    /\ comp.self = Root
    /\ comp.text = <<"g", SL>>
    /\ comp.cands = << <<"a", "a">>, <<"g">> >>
    /\ BehindHelp(comp).cands = comp.cands
    /\ get_command(Root, HELP \o <<SP>> \o comp.text, TRUE, TRUE).viaPrefix

(***************************************************************************)
(* Navigation tokens                                                       *)
(***************************************************************************)
\* the number of edges between node n and the root
RECURSIVE Depth(_)
Depth(n) == IF Parent[n] = NoNode THEN 0 ELSE 1 + Depth(Parent[n])

\* the ancestor of n that is k levels up, the root when there are fewer
RECURSIVE Ancestor(_, _)
Ancestor(n, k) ==
    IF k = 0 \/ Parent[n] = NoNode THEN n ELSE Ancestor(Parent[n], k - 1)

\* line s has tokens, and they all are '.' or '..'
NavigationOnly(s) ==
    /\ Tokens(s) # <<>>
    /\ \A i \in 1..Len(Tokens(s)) : Tokens(s)[i].tok \in {DOT, DOTDOT}

\* the number of '..' tokens of line s
UpCount(s) == Cardinality({i \in 1..Len(Tokens(s)) : Tokens(s)[i].tok = DOTDOT})

Max(a, b) == IF a >= b THEN a ELSE b

\* texts typed behind a line: nothing, one or two more '..' with '.' mixed in
NavigationTexts ==
    {<<>>, <<SL, ".", ".">>, <<SP, ".", ".", SL, ".", SL, ".", ".">>,
     <<SL, ".", SL, ".", ".", SP, ".", ".", SL>>}

(***************************************************************************)
(* C23: a line made only of '.' and '..' tokens, k of them '..', resolves  *)
(* from a start node at depth d to its ancestor at depth max(0, d - k)     *)
(* with empty args, in both modes and whether prefixes are enabled or not, *)
(* and never raises; '.' never changes the node; '..' at the root returns  *)
(* the root, empty args and length 2.  Stated for the line of the last     *)
(* call and for that line continued by each of NavigationTexts.            *)
(***************************************************************************)
C23_NavigationTokens ==
    Called =>
        /\ \A x \in NavigationTexts :
              LET s == res.prompt \o x
                  from == StartNode(res.self, s)
              IN  NavigationOnly(s) =>
                    \A pe \in BOOLEAN, partial \in BOOLEAN :
                        LET o == get_command(res.self, s, pe, partial)
                        IN  /\ o.st = "ok"
                            /\ o.node = Ancestor(from, UpCount(s))
                            /\ Depth(o.node) = Max(0, Depth(from) - UpCount(s))
                            /\ o.args = <<>>
                            /\ ~o.viaPrefix
        /\ (res.self = Root /\ res.prompt = DOTDOT) => res.out = Ok(Root, <<>>, 2, FALSE)

\* './..' typed two levels down leads one level up; continued by two more
\* '..' it leads to the root, which is where three '..' end from depth 2
C23_Witness ==
    /\ Called
    /\ res.self = "/g/g"
    /\ res.prompt = <<".", SL, ".", ".">>
    /\ NavigationOnly(res.prompt)
    /\ res.out.node = "/g"
    /\ UpCount(res.prompt \o <<SP, ".", ".", SL, ".", SL, ".", ".">>) = 3
    /\ get_command(res.self, res.prompt \o <<SP, ".", ".", SL, ".", SL, ".", ".">>,
                   TRUE, FALSE).node = Root

(***************************************************************************)
(* Hidden options and positional arguments of a leaf                       *)
(***************************************************************************)
\* the names of the hidden options and hidden positional arguments of leaf n
HiddenNames(n) ==
    {Options[n][i].name : i \in {j \in 1..Len(Options[n]) : Options[n][j].hidden}}
        \cup {Arguments[n][i].name : i \in {j \in 1..Len(Arguments[n]) : Arguments[n][j].hidden}}

\* the last declared positional argument of leaf n is hidden
LastPositionalHidden(n) ==
    Arguments[n] # <<>> /\ Arguments[n][Len(Arguments[n])].hidden

\* texts typed behind a line: the exact name of the hidden option, complete
\* or under the cursor, its first character, and one to three plain words
HiddenTexts ==
    {<<>>, <<"-", "q">>, <<"-", "q", SP>>, <<"-">>, <<"x", SP>>, <<"x", SP, "y", SP>>,
     <<"x", SP, "y", SP, "z", SP>>}

\* the completion calls looked at: the last one continued by each of
\* HiddenTexts, when answered by the completer of a leaf
CallsWithHidden ==
    {c \in {get_completions(comp.self, comp.text \o x) : x \in HiddenTexts} : AsksLeaf(c)}

(***************************************************************************)
(* C24: whatever has been typed, the candidates offered for a leaf contain *)
(* none of its hidden options and none of its hidden positional arguments, *)
(* also when the exact name of a hidden option was typed or when enough    *)
(* tokens were typed to reach a hidden positional; for a leaf whose last   *)
(* positional is hidden, no placeholder is offered once as many tokens as  *)
(* there are visible positionals were typed.                               *)
(***************************************************************************)
C24_HiddenNeverOffered ==
    comp.st # "none" =>
        \A c \in CallsWithHidden :
            /\ \A i \in 1..Len(c.cands) : c.cands[i] \notin HiddenNames(c.node)
            /\ (/\ LastPositionalHidden(c.node)
                /\ TypedTokens(HandedText(c)) >= Len(Placeholders(c.node))) =>
                    OfferedPlaceholders(c) = <<>>

\* 'a ' at the root: the visible options and placeholders are offered;
\* continued by '-', '-f' is offered and the hidden '-q' is not, although '-'
\* starts both; continued by two words, the hidden third positional Y is due
\* and no placeholder is offered
C24_Witness ==
    /\ AsksLeaf(comp)
    /\ comp.node = "/a"
    /\ comp.text = <<"a", SP>>
    /\ comp.cands = << <<"-", "f">>, <<"k", "=">>, <<"X">>, <<"Z">> >>
    /\ <<"-", "q">> \in HiddenNames("/a")
    /\ <<"Y">> \in HiddenNames("/a")
    /\ LastPositionalHidden("/a")
    /\ LET c == get_completions(comp.self, comp.text \o <<"-">>)
       IN  c \in CallsWithHidden /\ c.cands = << <<"-", "f">>, <<"Z">> >>
    /\ LET c == get_completions(comp.self, comp.text \o <<"x", SP, "y", SP>>)
       IN  c \in CallsWithHidden /\ OfferedPlaceholders(c) = <<>> /\ c.cands # <<>>

(***************************************************************************)
(* An escaped '#'                                                          *)
(***************************************************************************)
\* the escape character
BACKSLASH == "\\"

\* typed behind a line: a space, then an escaped '#' followed by a letter
EscapedHashText == <<SP, BACKSLASH, HASH, "b">>

\* the last call returned a leaf for a line without '#', not through a prefix
LeafWithoutComment ==
    /\ ReturnedPlain
    /\ ~HasChildren(res.out.node)
    /\ ~Contains(res.prompt, HASH)

(***************************************************************************)
(* C25: the comment starts at the first '#' that is not escaped; an        *)
(* escaped '#' is kept as part of the input.  So when a line without '#'   *)
(* resolves to a leaf, the same line continued by a space and '\#b'        *)
(* resolves to that leaf with args that keep the '#' and the 'b' behind    *)
(* it.                                                                     *)
(***************************************************************************)
C25_EscapedHashKept ==
    LeafWithoutComment =>
        LET o == get_command(res.self, res.prompt \o EscapedHashText, res.pe, res.partial)
        IN  /\ o.st = "ok"
            /\ o.node = res.out.node
            /\ Contains(o.args, HASH)
            /\ o.args # <<>> /\ o.args[Len(o.args)] = "b"

(***************************************************************************)
(* Where a prefix is honoured                                              *)
(***************************************************************************)
\* the first token of the line of the last call names a prefix that is no
\* child of the start node, and a space or the end of the line follows it
PrefixIsFirstToken ==
    LET toks == Tokens(res.prompt)
        line == Body(res.prompt)
    IN  /\ toks # <<>>
        /\ toks[1].tok \in Prefixes
        /\ Named(StartNode(res.self, res.prompt), toks[1].tok) = {}
        /\ LET n == toks[1].at + Len(toks[1].tok)
           IN  n = Len(line) \/ line[n + 1] = SP

(***************************************************************************)
(* C26: with prefixes enabled, a line whose first token is a registered    *)
(* prefix name that is no child of the start node is delegated to the      *)
(* prefix handler, the separators before that token ('/' of an absolute    *)
(* path, runs of '/' and spaces) not counting as tokens; and a call is     *)
(* delegated only if the first token of its line is a prefix name.         *)
(***************************************************************************)
C26_PrefixIffFirstToken ==
    (Called /\ res.pe) =>
        /\ PrefixIsFirstToken => res.out.viaPrefix
        /\ res.out.viaPrefix =>
              Tokens(res.prompt) # <<>> /\ Tokens(res.prompt)[1].tok \in Prefixes

(***************************************************************************)
(* Partial and non-partial resolution                                      *)
(***************************************************************************)
\* texts typed behind a line: nothing, more path, args behind a space
MoreTexts == {<<>>, <<SL, SL>>, <<SL, "a", SP, "x">>, <<SP, "g", SL, "a", "a", SP>>}

(***************************************************************************)
(* C27: for every pointer, line and value of prefix_enabled for which the  *)
(* non-partial call returns, the partial call returns the same node, the   *)
(* same args and the same consumed length.  Stated for the line of the     *)
(* last call and for that line continued by each of MoreTexts.             *)
(***************************************************************************)
C27_PartialRefinesNonPartial ==
    Called =>
        \A x \in MoreTexts, pe \in BOOLEAN :
            LET strict == get_command(res.self, res.prompt \o x, pe, FALSE)
                lax == get_command(res.self, res.prompt \o x, pe, TRUE)
            IN  strict.st = "ok" =>
                    /\ lax = strict
                    /\ (x = <<>> /\ pe = res.pe) => res.out = strict

\* 'g//' at /g resolved in partial mode gives what the non-partial call
\* gives: /g/g, no args, the whole line consumed
C27_Witness ==
    /\ Returned
    /\ res.partial
    /\ res.self = "/g"
    /\ res.prompt = <<"g", SL, SL>>
    /\ get_command(res.self, res.prompt, res.pe, FALSE) = Ok("/g/g", <<>>, 3, FALSE)
    /\ res.out = Ok("/g/g", <<>>, 3, FALSE)

(***************************************************************************)
(* C28: a non-partial call that returns, not through a prefix handler, a   *)
(* node with children returns empty args (for both values of               *)
(* prefix_enabled; stated for the line of the last call and for that line  *)
(* continued by each of MoreTexts); hence a REPL turn whose line resolves  *)
(* without prefix to a group navigates to it and invokes nothing.          *)
(***************************************************************************)
C28_GroupHasNoArgs ==
    /\ Called =>
          \A x \in MoreTexts, pe \in BOOLEAN :
              LET o == get_command(res.self, res.prompt \o x, pe, FALSE)
              IN  (o.st = "ok" /\ ~o.viaPrefix /\ HasChildren(o.node)) =>
                      /\ o.args = <<>>
                      /\ (x = <<>> /\ pe = res.pe /\ ~res.partial) => res.out.args = <<>>
    /\ (/\ IsReplTurn
        /\ Resolved.st = "ok"
        /\ ~Resolved.viaPrefix
        /\ HasChildren(Resolved.node)) =>
            /\ turn.kind = "goto"
            /\ turn.cmd = "none"
            /\ turn.args = <<>>
            /\ pointer = Resolved.node

\* a turn on 'g/ g' at the root: the line resolves to the group /g/g without
\* args although it holds a space, and the turn navigates there
C28_Witness ==
    /\ IsReplTurn
    /\ turn.from = Root
    /\ turn.line = <<"g", SL, SP, "g">>
    /\ Resolved = Ok("/g/g", <<>>, 4, FALSE)
    /\ turn.kind = "goto"
    /\ pointer = "/g/g"

(***************************************************************************)
(* The pointer                                                             *)
(***************************************************************************)
\* node n is reached from the root by following parent links
ReachableFromRoot(n) == n \in Nodes /\ Ancestor(n, Depth(n)) = Root

\* the last step was a REPL turn or a path assignment
IsTurnOrAssignment == IsReplTurn \/ turn.kind = "path"

(***************************************************************************)
(* C29: after any sequence of REPL turns and path assignments the pointer  *)
(* is a node reachable from the root that has at least one child; a turn   *)
(* or an assignment changes it only when its line resolved to a group with *)
(* empty args, and the pointer then is that group.                         *)
(***************************************************************************)
C29_PointerIsGroup ==
    /\ ReachableFromRoot(pointer)
    /\ HasChildren(pointer)
    /\ IsTurnOrAssignment =>
          /\ HasChildren(turn.from)
          /\ pointer # turn.from =>
                /\ Resolved.st = "ok"
                /\ HasChildren(Resolved.node)
                /\ Resolved.args = <<>>
                /\ pointer = Resolved.node
          /\ (Resolved.st # "ok" \/ ~HasChildren(Resolved.node) \/ Resolved.args # <<>>) =>
                pointer = turn.from

\* 'a' assigned to the path at /g/g, the pointer having been moved there
\* before: it resolves to the leaf /g/g/a and the pointer stays at /g/g
C29_Witness ==
    /\ turn.kind = "path"
    /\ turn.from = "/g/g"
    /\ turn.line = <<"a">>
    /\ Resolved = Ok("/g/g/a", <<>>, 1, FALSE)
    /\ pointer = "/g/g"
    /\ Depth(pointer) = 2

(***************************************************************************)
(* Paths                                                                   *)
(***************************************************************************)
\* the nodes that have children
Groups == {n \in Nodes : HasChildren(n)}

\* the names met from the root down to node n
RECURSIVE NamesTo(_)
NamesTo(n) == IF Parent[n] = NoNode THEN <<>> ELSE NamesTo(Parent[n]) \o <<NodeName[n]>>

\* the tokens of line s, without their offsets
TokenTexts(s) == [i \in 1..Len(Tokens(s)) |-> Tokens(s)[i].tok]

(***************************************************************************)
(* C30: the path of the root is '/' and the path of every other node is    *)
(* the path of its parent joined with its name, so that it spells the      *)
(* names from the root down, each behind one '/'; from every pointer, the  *)
(* path of every group n resolves to n with empty args; assigning the path *)
(* of a group n to the tree's path makes the pointer n (the tree's path    *)
(* then is the path of n); assigning the tree's own path leaves the        *)
(* pointer where it is.  Stated after each path assignment, for the        *)
(* pointer it was made from.                                               *)
(***************************************************************************)
C30_PathRoundTrip ==
    turn.kind = "path" =>
        /\ path(Root) = <<SL>>
        /\ \A n \in Nodes \ {Root} :
              /\ path(n) = (IF Parent[n] = Root THEN <<>> ELSE path(Parent[n]))
                              \o <<SL>> \o NodeName[n]
              /\ TokenTexts(path(n)) = NamesTo(n)
        /\ \A n \in Groups :
              /\ GetItem(turn.from, path(n)) = Ok(n, <<>>, Len(path(n)), FALSE)
              /\ turn.line = path(n) =>
                    /\ turn.report = "ok"
                    /\ pointer = n
                    /\ path(pointer) = turn.line
        /\ turn.line = path(turn.from) => pointer = turn.from

\* '/g/g' assigned to the path at /g: the pointer becomes /g/g; and the
\* tree's own path '/g' at /g resolves to /g
C30_Witness ==
    /\ turn.kind = "path"
    /\ turn.from = "/g"
    /\ turn.line = <<SL, "g", SL, "g">>
    /\ turn.line = path("/g/g")
    /\ turn.report = "ok"
    /\ pointer = "/g/g"
    /\ GetItem(turn.from, path(turn.from)).node = turn.from
====
